---- MODULE Spec2Model ----
(***************************************************************************)
(* Model of beancount_blue.calc_gains (src/beancount_blue/calc_gains.py):  *)
(* the extraction of trades from a ledger (calc_gains / Account.add_posting)*)
(* the average-cost scan (get_realizing_cost_consideration) and the        *)
(* rewriting of the entries (Account.process); and of the two plugins      *)
(* beancount_blue.amortize (src/beancount_blue/amortize.py) and            *)
(* beancount_blue.clear_residual_lots                                      *)
(* (src/beancount_blue/clear_residual_lots.py), each with a specification  *)
(* of its own over the same variables.                                     *)
(*                                                                         *)
(* Numbers are Decimal in the source.  They are modelled as exact          *)
(* rationals <<numerator, denominator>> in lowest terms, i.e. Decimal      *)
(* division is taken as exact (no 28-digit rounding).                      *)
(***************************************************************************)
EXTENDS Integers, Sequences, FiniteSets, TLC

\* ------------------------------------------------------------------ bounds
\* Number of entries of the ledger handed to calc_gains and to
\* clear_residual_lots.
MaxTxns == 3

\* Quantities and per-unit costs of the trades of a ledger of trades.
Quantities == {-2, -1, 1, 2}
Prices == {1, 2}

\* ------------------------------------------------------- exact arithmetic
Abs(x) == IF x < 0 THEN -x ELSE x

RECURSIVE GCD(_, _)
GCD(a, b) == IF b = 0 THEN a ELSE GCD(b, a % b)

\* A rational in lowest terms with a positive denominator.
Norm(n, d) ==
    LET g == GCD(Abs(n), Abs(d))
        s == IF d < 0 THEN -1 ELSE 1
    IN  <<(s * n) \div g, (s * d) \div g>>

R(n) == <<n, 1>>
ZERO == R(0)
RAdd(a, b) == Norm(a[1] * b[2] + b[1] * a[2], a[2] * b[2])
RNeg(a) == <<-a[1], a[2]>>
RSub(a, b) == RAdd(a, RNeg(b))
RMul(a, b) == Norm(a[1] * b[1], a[2] * b[2])
\* Defined for b # ZERO only; Decimal raises on a zero divisor.
RDiv(a, b) == Norm(a[1] * b[2], a[2] * b[1])
RPos(a) == a[1] > 0
RNegative(a) == a[1] < 0

\* ------------------------------------------------------------- data model
\* Python's None is the empty sequence, a present value a one-element one.
None == <<>>
Some(x) == <<x>>
IsNone(o) == o = <<>>
Val(o) == o[1]

Amount(number, currency) == [number |-> number, currency |-> currency]
Cost(number, currency, date) ==
    [number |-> number, currency |-> currency, date |-> date]
Posting(account, units, cost, price, flag, meta) ==
    [account |-> account, units |-> units, cost |-> cost,
     price |-> price, flag |-> flag, meta |-> meta]

\* The accounts of the plugin configuration and the other accounts of the
\* ledger.
TrackedAccount == "Assets:Test1"
OtherAccount == "Assets:Other"
CounterAccount == "Equity:Gains"
Tracked == {TrackedAccount}

\* The configuration of a tracked account (method is always "cost_avg", the
\* only key of METHODS, and counterAccount is present: Account.__init__
\* raises before any entry is read otherwise).
Config(lots) ==
    [method |-> "cost_avg", counterAccount |-> CounterAccount,
     lots_adjust |-> lots]

\* ----------------------------------------------------------- ledger inputs
\* A holding posting of the tracked account as the booking leaves it: u
\* units of instrument cur at a per-unit cost of p ccy, the lot dated d.
Holding(cur, u, p, ccy, d) ==
    Posting(TrackedAccount, Amount(Some(R(u)), cur),
            Some(Cost(R(p), ccy, Some(d))), None, None, None)

\* The trades of instrument X, costed in GBP, of a transaction dated d.
TradePostings(d) ==
    { Holding("X", u, p, "GBP", d) : u \in Quantities, p \in Prices }

\* The postings of a mixed ledger: simple trades of X, a trade of a second
\* instrument Y, and the postings that calc_gains skips or rejects.
MixedPostings(d) ==
    { Holding("X", 1, 1, "GBP", d),
      Holding("X", -1, 2, "GBP", d),
      Holding("X", 0, 1, "GBP", d),
      Holding("Y", 1, 1, "GBP", d),
      \* instrument X costed in another currency
      Holding("X", 1, 1, "USD", d),
      \* a cost dated differently from the transaction
      Holding("X", 1, 1, "GBP", d + 1),
      \* a price and no cost
      Posting(TrackedAccount, Amount(Some(R(1)), "X"),
              None, Some(Amount(Some(R(1)), "GBP")), None, None),
      \* a cost and no quantity
      Posting(TrackedAccount, Amount(None, "X"),
              Some(Cost(R(1), "GBP", Some(d))), None, None, None),
      \* a costed posting of an account that is not configured
      Posting(OtherAccount, Amount(Some(R(1)), "X"),
              Some(Cost(R(1), "GBP", Some(d))), None, None, None) }

\* The weight of a posting: units * cost, units * price, or the units.
Weight(p) ==
    LET n == IF IsNone(p.units.number) THEN ZERO ELSE Val(p.units.number)
    IN  IF ~IsNone(p.cost) THEN RMul(n, Val(p.cost).number)
        ELSE IF ~IsNone(p.price) THEN RMul(n, Val(Val(p.price).number))
        ELSE n

\* The currency of the weight of a posting.
WeightCurrency(p) ==
    IF ~IsNone(p.cost) THEN Val(p.cost).currency
    ELSE IF ~IsNone(p.price) THEN Val(p.price).currency
    ELSE p.units.currency

\* The cash leg balancing a posting (no cost, no price), booked on the
\* tracked account as in tests/test_calc_gains.py.
CashLeg(p) ==
    Posting(TrackedAccount, Amount(Some(RNeg(Weight(p))), WeightCurrency(p)),
            None, None, None, None)

Transaction(d, postings) ==
    [type |-> "Transaction", date |-> d, postings |-> postings]
\* An entry that is not a Transaction (an Open directive).
Open(d) == [type |-> "Open", date |-> d, postings |-> <<>>]

\* The entries dated d of a ledger of family fam: "trades" ledgers hold a
\* trade of X in every entry, "mixed" ledgers hold anything else.
EntriesAt(fam, d) ==
    IF fam = "trades"
    THEN { Transaction(d, <<p, CashLeg(p)>>) : p \in TradePostings(d) }
    ELSE { Transaction(d, <<p, CashLeg(p)>>) : p \in MixedPostings(d) }
         \cup {Open(d)}

\* Ledgers of n entries in date order, entry i dated i.
RECURSIVE LedgersOf(_, _)
LedgersOf(fam, n) ==
    IF n = 0 THEN {<<>>}
    ELSE { Append(l, e) : l \in LedgersOf(fam, n - 1), e \in EntriesAt(fam, n) }

Ledgers == LedgersOf("trades", MaxTxns) \cup LedgersOf("mixed", MaxTxns)

\* A Python dict: the list of its <<key, value>> items in insertion order.
Keys(d) == { d[i][1] : i \in 1..Len(d) }
Get(d, k) == d[CHOOSE i \in 1..Len(d) : d[i][1] = k][2]
Put(d, k, v) ==
    IF k \in Keys(d)
    THEN [i \in 1..Len(d) |-> IF d[i][1] = k THEN <<k, v>> ELSE d[i]]
    ELSE Append(d, <<k, v>>)
\* list(d.values())
Values(d) == [i \in 1..Len(d) |-> d[i][2]]

\* ------------------------------------------------------------------ state
VARIABLES
    config,       \* config[a]: the configuration of tracked account a
    input,        \* the entries as they were when calc_gains was called
    heap,         \* heap[r]: the entry object r; the list entries is 1..Len(heap)
    new_entries,  \* the list entries.copy(): references into heap, or None
    accounts,     \* accounts[a]: the fields of the Account object of a
    errors,       \* the local list errors of calc_gains
    pc,           \* "collect", "method", "trade", "return", "done", "raised"
    transId,      \* cursor of the collection loop: entry (1-based)
    postId,       \* cursor of the collection loop: posting (1-based)
    hIdx,         \* Account.process: position in self.history.values()
    tIdx,         \* Account.process: position in trades
    adjs,         \* Account.process: the list adjs
    inventory,    \* Account.process: the Inventory, a list of positions
    result,       \* the pair returned by calc_gains, or None
    run,          \* 1 in the first call of calc_gains, 2 in a second call
    \* amortize and clear_residual_lots share config, input (their entries),
    \* new_entries, errors, pc, transId, postId, result and run with
    \* calc_gains, and have these locals of their own:
    acctIdx,      \* amortize: position in accounts.items()
    cashflow,     \* amortize: cashflow[key][cashflow_date]
    src,          \* amortize: src[key]
    keyIdx,       \* position in cashflow.items() / residual_inventories.items()
    dateIdx,      \* amortize: position in amts.items()
    closed_accounts,       \* clear_residual_lots: account -> close date
    residual_inventories,  \* clear_residual_lots: account -> Inventory
    balancing_txns         \* clear_residual_lots: account -> Transaction

\* The locals of calc_gains alone, and of the other two plugins alone.
calcVars == <<heap, accounts, hIdx, tIdx, adjs, inventory>>
pluginVars == <<acctIdx, cashflow, src, keyIdx, dateIdx, closed_accounts,
                residual_inventories, balancing_txns>>

vars == <<config, input, heap, new_entries, accounts, errors, pc, transId,
          postId, hIdx, tIdx, adjs, inventory, result, run, pluginVars>>

\* The locals of amortize and clear_residual_lots before a call.
NoPlugin ==
    /\ acctIdx = 0
    /\ cashflow = <<>>
    /\ src = <<>>
    /\ keyIdx = 0
    /\ dateIdx = 0
    /\ closed_accounts = <<>>
    /\ residual_inventories = <<>>
    /\ balancing_txns = <<>>

\* Account.__init__
NewAccount ==
    [cost_currency |-> <<>>, history |-> <<>>, last_balance |-> <<>>]

\* The state at the start of a call calc_gains(entries, _, config_str).
Call(entries, cfg, n) ==
    /\ config = cfg
    /\ input = entries
    /\ heap = entries
    /\ new_entries = None
    /\ accounts = [a \in Tracked |-> NewAccount]
    /\ errors = <<>>
    /\ pc = "collect"
    /\ transId = 1
    /\ postId = 1
    /\ hIdx = 0
    /\ tIdx = 0
    /\ adjs = <<>>
    /\ inventory = <<>>
    /\ result = None
    /\ run = n
    /\ NoPlugin

Init ==
    \E l \in Ledgers, lots \in BOOLEAN :
        Call(l, [a \in Tracked |-> Config(lots)], 1)

\* ------------------------------------------------- Account.add_posting
\* class Trade
Trade(postingId, balance, date, units, price, consideration, realizing) ==
    [postingId |-> postingId, balance |-> balance, date |-> date,
     units |-> units, price |-> price, consideration |-> consideration,
     realizing |-> realizing]

\* Mutant of Realizing: the comparisons with the balance are not strict.
RealizingNonStrict(balance, number) ==
    \/ balance[1] >= 0 /\ RNegative(number)
    \/ balance[1] <= 0 /\ RPos(number)

\* (balance > 0 and posting.units.number < 0) or
\* (balance < 0 and posting.units.number > 0)
Realizing(balance, number) ==
    \/ RPos(balance) /\ RNegative(number)
    \/ RNegative(balance) /\ RPos(number)

\* Mutant of BalanceAfter: the running balance is overwritten by the traded
\* quantity.
BalanceAfterTradeOnly(balance, number) == number

\* self.last_balance[asset_currency] = balance + posting.units.number
BalanceAfter(balance, number) == RAdd(balance, number)

\* Account.add_posting: the Account after the call and the message returned
\* (None for an accepted posting).  posting.cost is a booked Cost, whose
\* number is always present, so price is posting.cost.number and never None.
add_posting(self, postingId, entry, posting) ==
    IF IsNone(posting.cost)
    THEN [self |-> self, ret |-> Some("has no cost")]
    ELSE IF IsNone(posting.units.number)
    THEN [self |-> self, ret |-> Some("has no units")]
    ELSE
    LET asset_currency == posting.units.currency
        cost == Val(posting.cost)
        cost_currency == cost.currency
        seen == asset_currency \in Keys(self.cost_currency)
        self1 == IF seen THEN self
                 ELSE [self EXCEPT !.cost_currency =
                          Put(@, asset_currency, cost_currency)]
    IN
    IF seen /\ Get(self.cost_currency, asset_currency) # cost_currency
    THEN [self |-> self, ret |-> Some("inconsistent cost currencies")]
    ELSE IF ~IsNone(cost.date) /\ Val(cost.date) # entry.date
    THEN [self |-> self1,
          ret |-> Some("cost date is different from transaction date")]
    ELSE
    LET balance == IF asset_currency \in Keys(self1.last_balance)
                   THEN Get(self1.last_balance, asset_currency) ELSE ZERO
        number == Val(posting.units.number)
        realizing == Realizing(balance, number)
        price == cost.number
        trade == Trade(postingId, balance, entry.date, number, price,
                       RMul(number, price), realizing)
        trades == IF asset_currency \in Keys(self1.history)
                  THEN Get(self1.history, asset_currency) ELSE <<>>
    IN  [self |-> [self1 EXCEPT
                     !.history = Put(@, asset_currency, Append(trades, trade)),
                     !.last_balance =
                         Put(@, asset_currency, BalanceAfter(balance, number))],
         ret |-> None]

\* ------------------------------------ get_realizing_cost_consideration
\* Mutant of ScanStep: the totals take in the trade before its average cost
\* is computed.
ScanStepOwnTrade(acc, trade) ==
    LET units == RAdd(acc.total_units, trade.units)
        cost == RAdd(acc.total_cost, RMul(trade.price, trade.units))
    IN  IF acc.failed THEN acc
        ELSE IF trade.realizing /\ units = ZERO
        THEN [acc EXCEPT !.failed = TRUE]
        ELSE [total_units |-> units,
              total_cost |-> cost,
              cost_consideration |->
                  IF trade.realizing
                  THEN Append(acc.cost_consideration,
                              RMul(trade.units, RDiv(cost, units)))
                  ELSE acc.cost_consideration,
              failed |-> FALSE]

\* One iteration of the loop over trades.  failed: total_cost / total_units
\* raised (a zero total_units), which ends the call.
ScanStep(acc, trade) ==
    IF acc.failed THEN acc
    ELSE IF trade.realizing /\ acc.total_units = ZERO
    THEN [acc EXCEPT !.failed = TRUE]
    ELSE [total_units |-> RAdd(acc.total_units, trade.units),
          total_cost |-> RAdd(acc.total_cost, RMul(trade.price, trade.units)),
          cost_consideration |->
              IF trade.realizing
              THEN Append(acc.cost_consideration,
                          RMul(trade.units,
                               RDiv(acc.total_cost, acc.total_units)))
              ELSE acc.cost_consideration,
          failed |-> FALSE]

\* The locals of get_realizing_cost_consideration after n iterations.
RECURSIVE Scan(_, _)
Scan(trades, n) ==
    IF n = 0
    THEN [total_units |-> ZERO, total_cost |-> ZERO,
          cost_consideration |-> <<>>, failed |-> FALSE]
    ELSE ScanStep(Scan(trades, n - 1), trades[n])

get_realizing_cost_consideration(trades) == Scan(trades, Len(trades))

\* ------------------------------------------------------------- Inventory
\* beancount's Inventory as used by Account.process: a list of positions
\* [units, cost] keyed by (units.currency, cost).
Position(units, cost) == [units |-> units, cost |-> cost]

\* Inventory.add_position(posting): merge into the position of the same key
\* (dropping it when the sum is zero), else create one unless the number of
\* units is zero.
add_position(inv, posting) ==
    LET same(i) == /\ inv[i].units.currency = posting.units.currency
                   /\ inv[i].cost = posting.cost
        number == Val(posting.units.number)
    IN  IF \E i \in 1..Len(inv) : same(i)
        THEN LET k == CHOOSE i \in 1..Len(inv) : same(i)
                 sum == RAdd(Val(inv[k].units.number), number)
             IN  IF sum = ZERO
                 THEN SubSeq(inv, 1, k - 1) \o SubSeq(inv, k + 1, Len(inv))
                 ELSE [inv EXCEPT ![k].units.number = Some(sum)]
        ELSE IF number = ZERO THEN inv
        ELSE Append(inv, Position(posting.units, posting.cost))

\* --------------------------------------------------------- Account.process
\* The liquidation loop over inventory.get_positions(): the first n
\* positions give liquidated_cost, liquidated_balance and the postings
\* appended to the transaction.
RECURSIVE Liquidate(_, _, _)
Liquidate(account, inv, n) ==
    IF n = 0
    THEN [liquidated_cost |-> ZERO, liquidated_balance |-> ZERO,
          postings |-> <<>>]
    ELSE
    LET acc == Liquidate(account, inv, n - 1)
        pos == inv[n]
    IN  IF \/ IsNone(pos.cost)
           \/ IsNone(pos.units.number)
           \/ Val(pos.units.number) = ZERO
        THEN acc
        ELSE [liquidated_cost |->
                  RAdd(acc.liquidated_cost,
                       RMul(Val(pos.cost).number, Val(pos.units.number))),
              liquidated_balance |->
                  RAdd(acc.liquidated_balance, Val(pos.units.number)),
              postings |->
                  Append(acc.postings,
                         Posting(account,
                                 Amount(Some(RNeg(Val(pos.units.number))),
                                        pos.units.currency),
                                 pos.cost, None, None, None))]

\* meta of the counter-posting
Note(lots_adjust) == IF lots_adjust THEN "full_adjustment" ELSE "part_adjust"

\* new_cost_consideration of a trade, given the list adjs
NewCostConsideration(trade, adjList) ==
    IF trade.realizing THEN Head(adjList) ELSE RMul(trade.price, trade.units)

\* Mutant of CounterAmount: the recorded consideration is subtracted from the
\* new one instead of the reverse.
CounterAmountSwapped(trade, liq, new_cost_consideration) ==
    RAdd(RSub(RMul(RAdd(liq.liquidated_balance, trade.units),
                   RDiv(new_cost_consideration, trade.units)),
              RMul(trade.price, trade.units)),
         liq.liquidated_cost)

\* Mutant of CounterAmount: the cost of the liquidated lots is left out.
CounterAmountNoLiquidatedCost(trade, liq, new_cost_consideration) ==
    RSub(RMul(trade.price, trade.units),
         RMul(RAdd(liq.liquidated_balance, trade.units),
              RDiv(new_cost_consideration, trade.units)))

\* camt of a trade
CounterAmount(trade, liq, new_cost_consideration) ==
    RAdd(RSub(RMul(trade.price, trade.units),
              RMul(RAdd(liq.liquidated_balance, trade.units),
                   RDiv(new_cost_consideration, trade.units))),
         liq.liquidated_cost)

\* Mutant of NewUnits: the liquidated balance is not carried into the posting.
NewUnitsTradeOnly(liq, trade) == trade.units

\* number of the rewritten posting's units
NewUnits(liq, trade) == RAdd(liq.liquidated_balance, trade.units)

\* number of the rewritten posting's cost (trade.units is not zero)
NewCost(new_cost_consideration, trade) ==
    RDiv(new_cost_consideration, trade.units)

\* The body of the loop over trades for one trade, on the postings of its
\* transaction: the postings and the inventory after it, and whether the
\* division by trade.units raised (after the liquidation postings were
\* appended).
ProcessOne(account, cfg, trans, trade, adjList, inv) ==
    LET ncc == NewCostConsideration(trade, adjList)
        liq == IF cfg.lots_adjust
               THEN Liquidate(account, inv, Len(inv))
               ELSE Liquidate(account, inv, 0)
        postings1 == trans.postings \o liq.postings
        inv1 == IF cfg.lots_adjust THEN <<>> ELSE inv
        pid == trade.postingId[2]
    IN  IF trade.units = ZERO
        THEN [postings |-> postings1, inventory |-> inv1, raised |-> TRUE]
        ELSE
        LET old == postings1[pid]
            new == [old EXCEPT
                      !.units.number = Some(NewUnits(liq, trade)),
                      !.cost = Some([Val(old.cost) EXCEPT
                                       !.number = NewCost(ncc, trade),
                                       !.date = Some(trans.date)])]
            postings2 == [postings1 EXCEPT ![pid] = new]
            camt == CounterAmount(trade, liq, ncc)
            postings3 ==
                IF camt # ZERO
                THEN Append(postings2,
                            Posting(cfg.counterAccount,
                                    Amount(Some(camt), Val(new.cost).currency),
                                    None, None, None,
                                    Some(Note(cfg.lots_adjust))))
                ELSE postings2
        IN  [postings |-> postings3, inventory |-> add_position(inv1, new),
             raised |-> FALSE]

\* ------------------------------------------------------ calc_gains: actions
\* The collection loop stands at posting postId of entry transId.
Collecting == pc = "collect" /\ transId <= Len(heap)
AtPosting ==
    /\ Collecting
    /\ heap[transId].type = "Transaction"
    /\ postId <= Len(heap[transId].postings)
CurPosting == heap[transId].postings[postId]

\* The next iteration of the loops over entries and postings.
NextPosting ==
    IF postId < Len(heap[transId].postings)
    THEN transId' = transId /\ postId' = postId + 1
    ELSE transId' = transId + 1 /\ postId' = 1

\* if not isinstance(entry, Transaction): continue
SkipEntry ==
    /\ Collecting
    /\ heap[transId].type # "Transaction"
    /\ transId' = transId + 1
    /\ postId' = 1
    /\ UNCHANGED <<config, input, heap, new_entries, accounts, errors, pc,
                   hIdx, tIdx, adjs, inventory, result, run>>
    /\ UNCHANGED pluginVars

\* if post.account not in accounts: continue
SkipUntracked ==
    /\ AtPosting
    /\ CurPosting.account \notin Tracked
    /\ NextPosting
    /\ UNCHANGED <<config, input, heap, new_entries, accounts, errors, pc,
                   hIdx, tIdx, adjs, inventory, result, run>>
    /\ UNCHANGED pluginVars

\* if not post.cost and not post.price: continue
SkipNoCostNoPrice ==
    /\ AtPosting
    /\ CurPosting.account \in Tracked
    /\ IsNone(CurPosting.cost) /\ IsNone(CurPosting.price)
    /\ NextPosting
    /\ UNCHANGED <<config, input, heap, new_entries, accounts, errors, pc,
                   hIdx, tIdx, adjs, inventory, result, run>>
    /\ UNCHANGED pluginVars

\* if not post.cost: errors.append("missing cost?!?"); continue
MissingCost ==
    /\ AtPosting
    /\ CurPosting.account \in Tracked
    /\ IsNone(CurPosting.cost) /\ ~IsNone(CurPosting.price)
    /\ errors' = Append(errors, "missing cost?!?")
    /\ NextPosting
    /\ UNCHANGED <<config, input, heap, new_entries, accounts, pc,
                   hIdx, tIdx, adjs, inventory, result, run>>
    /\ UNCHANGED pluginVars

\* accounts[post.account].add_posting((transId, postId), entry, post): the
\* value returned is dropped.
AddPosting ==
    /\ AtPosting
    /\ CurPosting.account \in Tracked
    /\ ~IsNone(CurPosting.cost)
    /\ LET a == CurPosting.account
           r == add_posting(accounts[a], <<transId, postId>>, heap[transId],
                            CurPosting)
       IN  accounts' = [accounts EXCEPT ![a] = r.self]
    /\ NextPosting
    /\ UNCHANGED <<config, input, heap, new_entries, errors, pc,
                   hIdx, tIdx, adjs, inventory, result, run>>
    /\ UNCHANGED pluginVars

\* The single tracked account, in the order of accounts.values().
ProcessedAccount == CHOOSE a \in Tracked : TRUE
Histories == Values(accounts[ProcessedAccount].history)

\* new_entries = entries.copy(): a new list of the same entry objects; then
\* account.process(new_entries) starts.
CopyEntries ==
    /\ pc = "collect"
    /\ transId > Len(heap)
    /\ new_entries' = Some([i \in 1..Len(heap) |-> i])
    /\ hIdx' = 1
    /\ pc' = IF Len(Histories) >= 1 THEN "method" ELSE "return"
    /\ UNCHANGED <<config, input, heap, accounts, errors, transId, postId,
                   tIdx, adjs, inventory, result, run>>
    /\ UNCHANGED pluginVars

\* for trades in self.history.values(): inventory = Inventory();
\* adjs = self.method(trades)
RunMethod ==
    /\ pc = "method"
    /\ LET r == get_realizing_cost_consideration(Histories[hIdx])
       IN  /\ adjs' = r.cost_consideration
           /\ pc' = IF r.failed THEN "raised" ELSE "trade"
    /\ inventory' = <<>>
    /\ tIdx' = 1
    /\ UNCHANGED <<config, input, heap, new_entries, accounts, errors,
                   transId, postId, hIdx, result, run>>
    /\ UNCHANGED pluginVars

\* One iteration of `for trade in trades` (every history holds a trade).
ProcessTrade ==
    /\ pc = "trade"
    /\ LET trades == Histories[hIdx]
           trade == trades[tIdx]
           ref == Val(new_entries)[trade.postingId[1]]
           r == ProcessOne(ProcessedAccount, config[ProcessedAccount],
                           heap[ref], trade, adjs, inventory)
       IN  /\ heap' = [heap EXCEPT ![ref].postings = r.postings]
           /\ inventory' = r.inventory
           /\ adjs' = IF trade.realizing THEN Tail(adjs) ELSE adjs
           /\ IF r.raised
              THEN pc' = "raised" /\ UNCHANGED <<hIdx, tIdx>>
              ELSE IF tIdx < Len(trades)
              THEN pc' = "trade" /\ tIdx' = tIdx + 1 /\ hIdx' = hIdx
              ELSE IF hIdx < Len(Histories)
              THEN pc' = "method" /\ hIdx' = hIdx + 1 /\ tIdx' = tIdx
              ELSE pc' = "return" /\ UNCHANGED <<hIdx, tIdx>>
    /\ UNCHANGED <<config, input, new_entries, accounts, errors, transId,
                   postId, result, run>>
    /\ UNCHANGED pluginVars

\* return new_entries, []
Return ==
    /\ pc = "return"
    /\ result' = Some([entries |-> Val(new_entries), errors |-> <<>>])
    /\ pc' = "done"
    /\ UNCHANGED <<config, input, heap, new_entries, accounts, errors,
                   transId, postId, hIdx, tIdx, adjs, inventory, run>>
    /\ UNCHANGED pluginVars

Next ==
    \/ SkipEntry
    \/ SkipUntracked
    \/ SkipNoCostNoPrice
    \/ MissingCost
    \/ AddPosting
    \/ CopyEntries
    \/ RunMethod
    \/ ProcessTrade
    \/ Return

Spec == Init /\ [][Next]_vars

\* A second call of calc_gains, on the entries the first call returned, with
\* the same configuration.
Rerun ==
    /\ pc = "done"
    /\ run = 1
    /\ LET returned == [i \in 1..Len(Val(result).entries) |->
                           heap[Val(result).entries[i]]]
       IN  /\ input' = returned
           /\ heap' = returned
    /\ new_entries' = None
    /\ accounts' = [a \in Tracked |-> NewAccount]
    /\ errors' = <<>>
    /\ pc' = "collect"
    /\ transId' = 1
    /\ postId' = 1
    /\ hIdx' = 0
    /\ tIdx' = 0
    /\ adjs' = <<>>
    /\ inventory' = <<>>
    /\ result' = None
    /\ run' = 2
    /\ UNCHANGED <<config, pluginVars>>

NextRerun == Next \/ Rerun

SpecRerun == Init /\ [][NextRerun]_vars

\* ------------------------------------------------------------ properties
\* What the ledger handed to calc_gains records for a trade.
InputPosting(trade) == input[trade.postingId[1]].postings[trade.postingId[2]]
RecordedUnits(trade) == Val(InputPosting(trade).units.number)
RecordedPrice(trade) == Val(InputPosting(trade).cost).number
Consideration(trade) == RMul(RecordedUnits(trade), RecordedPrice(trade))

\* The units, and the recorded considerations, of the first n trades of h.
RECURSIVE SumUnits(_, _)
SumUnits(h, n) ==
    IF n = 0 THEN ZERO ELSE RAdd(SumUnits(h, n - 1), RecordedUnits(h[n]))
RECURSIVE SumConsideration(_, _)
SumConsideration(h, n) ==
    IF n = 0 THEN ZERO
    ELSE RAdd(SumConsideration(h, n - 1), Consideration(h[n]))

\* The trade histories of the tracked account and their trades.
TradeIds == { <<hi, i>> : hi \in 1..Len(Histories), i \in 1..MaxTxns }
IsTrade(hi, i) == hi \in 1..Len(Histories) /\ i \in 1..Len(Histories[hi])
LotsAdjust == config[ProcessedAccount].lots_adjust

\* Account.process has finished its iteration for trade i of history hi.
Processed(hi, i) ==
    /\ IsTrade(hi, i)
    /\ \/ pc \in {"return", "done"}
       \/ pc = "method" /\ hi < hIdx
       \/ pc \in {"trade", "raised"} /\ (hi < hIdx \/ (hi = hIdx /\ i < tIdx))

\* C1: a trade is marked realizing iff the balance before it (the quantities
\* of the trades preceding it in its history) and its own quantity have
\* opposite strict signs; from a balance of exactly zero it never is.
C1_RealizingIffOppositeSigns ==
    \A id \in TradeIds :
        IsTrade(id[1], id[2]) =>
            LET h == Histories[id[1]]
                before == SumUnits(h, id[2] - 1)
                q == RecordedUnits(h[id[2]])
            IN  /\ h[id[2]].realizing <=>
                      \/ before[1] > 0 /\ q[1] < 0
                      \/ before[1] < 0 /\ q[1] > 0
                /\ before = ZERO => ~h[id[2]].realizing

\* A history that realizes from a short balance and then trades again, as a
\* disposal, from a balance of exactly zero.
C1_Witness ==
    \E hi \in 1..Len(Histories) :
        LET h == Histories[hi]
        IN  /\ Len(h) >= 3
            /\ SumUnits(h, 1)[1] < 0 /\ h[2].realizing
            /\ SumUnits(h, 2) = ZERO /\ RecordedUnits(h[3])[1] < 0
            /\ ~h[3].realizing

\* The posting of a trade as the entries hold it now.
HeapPosting(trade) == heap[trade.postingId[1]].postings[trade.postingId[2]]
\* The per-unit cost written back to the posting of a trade.
EmittedPrice(trade) == Val(HeapPosting(trade).cost).number
\* The recorded cost of the trades before trade i of h over their units.
PrecedingAverage(h, i) ==
    RDiv(SumConsideration(h, i - 1), SumUnits(h, i - 1))

\* C2: the per-unit cost written to the posting of a realizing trade is the
\* total recorded cost of the trades strictly preceding it in its history
\* divided by their total units: neither its own recorded price and quantity
\* nor a later trade enters it.
C2_EmittedPriceFromPrecedingTrades ==
    \A id \in TradeIds :
        (Processed(id[1], id[2]) /\ Histories[id[1]][id[2]].realizing) =>
            EmittedPrice(Histories[id[1]][id[2]])
                = PrecedingAverage(Histories[id[1]], id[2])

\* A processed realizing trade recorded at a price other than the average of
\* the trades before it, and followed by one more trade.
C2_Witness ==
    \E id \in TradeIds :
        /\ Processed(id[1], id[2])
        /\ id[2] < Len(Histories[id[1]])
        /\ Histories[id[1]][id[2]].realizing
        /\ RecordedPrice(Histories[id[1]][id[2]])
               # PrecedingAverage(Histories[id[1]], id[2])
        /\ EmittedPrice(Histories[id[1]][id[2]])
               # RecordedPrice(Histories[id[1]][id[2]])

\* C3: in the scan, a realizing trade adds quantity * average cost to
\* total_cost, a non-realizing trade quantity * recorded price, and both add
\* their quantity to total_units.
C3_RealizingLegCostedAtAverage ==
    \A id \in TradeIds :
        IsTrade(id[1], id[2]) =>
            LET h == Histories[id[1]]
                trade == h[id[2]]
                before == Scan(h, id[2] - 1)
                after == Scan(h, id[2])
            IN  ~after.failed =>
                /\ after.total_units
                       = RAdd(before.total_units, trade.units)
                /\ after.total_cost =
                       IF trade.realizing
                       THEN RAdd(before.total_cost,
                                 RMul(trade.units,
                                      RDiv(before.total_cost,
                                           before.total_units)))
                       ELSE RAdd(before.total_cost,
                                 RMul(trade.units, trade.price))

\* The postings of the transaction of a trade, now and in the input.
HeapPostings(trade) == heap[trade.postingId[1]].postings
InputPostings(trade) == input[trade.postingId[1]].postings

\* The counter-posting the claim expects for realizing trade i of h: on the
\* counter-account, in the cost currency, (recorded price - average) *
\* quantity, noted part_adjust.
PartAdjustPosting(h, i) ==
    Posting(CounterAccount,
            Amount(Some(RMul(RSub(RecordedPrice(h[i]), PrecedingAverage(h, i)),
                             RecordedUnits(h[i]))),
                   Val(InputPosting(h[i]).cost).currency),
            None, None, None, Some("part_adjust"))

\* A realizing trade recorded at a price other than the average cost.
OffAverage(h, i) ==
    h[i].realizing /\ RecordedPrice(h[i]) # PrecedingAverage(h, i)

\* C4: without lots_adjust, the transaction of a processed trade gains a
\* counter-posting iff the trade is realizing and recorded off the average
\* cost; that posting is the part_adjust posting of (recorded price -
\* average) * quantity; every other posting is untouched, the trade's
\* posting keeps its quantity, and keeps its per-unit cost unless the
\* counter-posting was added.  Transactions of trades not yet processed are
\* as in the input.
C4_PartAdjustIffOffAverage ==
    ~LotsAdjust =>
        \A id \in TradeIds :
            IsTrade(id[1], id[2]) =>
                LET h == Histories[id[1]]
                    trade == h[id[2]]
                    now == HeapPostings(trade)
                    was == InputPostings(trade)
                    pid == trade.postingId[2]
                IN  IF ~Processed(id[1], id[2]) THEN now = was
                    ELSE
                    /\ \A k \in 1..Len(was) : k # pid => now[k] = was[k]
                    /\ now[pid].units = was[pid].units
                    /\ IF OffAverage(h, id[2])
                       THEN /\ Len(now) = Len(was) + 1
                            /\ now[Len(now)] = PartAdjustPosting(h, id[2])
                       ELSE /\ Len(now) = Len(was)
                            /\ now[pid] = was[pid]

\* A finished call without lots_adjust that processed a non-realizing
\* trade, a realizing trade recorded at the average cost and a realizing
\* trade recorded off it.
C4_Witness ==
    /\ pc = "done"
    /\ ~LotsAdjust
    /\ \E hi \in 1..Len(Histories) :
        LET h == Histories[hi]
        IN  /\ Len(h) = 3
            /\ ~h[1].realizing
            /\ \E i, j \in 2..3 :
                /\ OffAverage(h, i)
                /\ h[j].realizing /\ ~OffAverage(h, j)

\* The amounts posted to the counter-account among the first n postings.
RECURSIVE CounterSum(_, _)
CounterSum(postings, n) ==
    IF n = 0 THEN ZERO
    ELSE IF postings[n].account = CounterAccount
    THEN RAdd(CounterSum(postings, n - 1), Val(postings[n].units.number))
    ELSE CounterSum(postings, n - 1)

\* Over the first n trades of h: the counter amounts emitted, the recorded
\* considerations of the non-realizing trades, and quantity * emitted
\* per-unit cost of the realizing trades.
RECURSIVE SumCounterAmounts(_, _)
SumCounterAmounts(h, n) ==
    IF n = 0 THEN ZERO
    ELSE RAdd(SumCounterAmounts(h, n - 1),
              CounterSum(HeapPostings(h[n]), Len(HeapPostings(h[n]))))
RECURSIVE SumNonRealizing(_, _)
SumNonRealizing(h, n) ==
    IF n = 0 THEN ZERO
    ELSE IF h[n].realizing THEN SumNonRealizing(h, n - 1)
    ELSE RAdd(SumNonRealizing(h, n - 1), Consideration(h[n]))
RECURSIVE SumRealizingAtCost(_, _)
SumRealizingAtCost(h, n) ==
    IF n = 0 THEN ZERO
    ELSE IF ~h[n].realizing THEN SumRealizingAtCost(h, n - 1)
    ELSE RAdd(SumRealizingAtCost(h, n - 1),
              RMul(RecordedUnits(h[n]), EmittedPrice(h[n])))

\* C5 as stated: the counter amounts plus the recorded considerations of the
\* non-realizing trades equal the recorded considerations of all trades (here
\* for an account without lots_adjust).
C5_ValueConservationAsStated ==
    (pc = "done" /\ ~LotsAdjust) =>
        \A hi \in 1..Len(Histories) :
            LET h == Histories[hi]
            IN  RAdd(SumCounterAmounts(h, Len(h)), SumNonRealizing(h, Len(h)))
                    = SumConsideration(h, Len(h))

\* C5 amended: for an account without lots_adjust, the counter amounts plus
\* the recorded considerations of the non-realizing trades plus the
\* average-cost considerations (quantity * emitted per-unit cost) of the
\* realizing trades equal the recorded considerations of all trades.
C5_ValueConservation ==
    (pc = "done" /\ ~LotsAdjust) =>
        \A hi \in 1..Len(Histories) :
            LET h == Histories[hi]
            IN  RAdd(RAdd(SumCounterAmounts(h, Len(h)),
                          SumNonRealizing(h, Len(h))),
                     SumRealizingAtCost(h, Len(h)))
                    = SumConsideration(h, Len(h))

\* A finished call without lots_adjust whose history emitted a non-zero
\* counter amount and holds two realizing trades.
C5_Witness ==
    /\ pc = "done"
    /\ ~LotsAdjust
    /\ \E hi \in 1..Len(Histories) :
        LET h == Histories[hi]
        IN  /\ SumCounterAmounts(h, Len(h)) # ZERO
            /\ Len(h) = 3 /\ h[2].realizing /\ h[3].realizing
            /\ OffAverage(h, 2) /\ OffAverage(h, 3)

\* The weights in currency c of the first n postings.
RECURSIVE WeightSum(_, _, _)
WeightSum(postings, c, n) ==
    IF n = 0 THEN ZERO
    ELSE IF WeightCurrency(postings[n]) = c
    THEN RAdd(WeightSum(postings, c, n - 1), Weight(postings[n]))
    ELSE WeightSum(postings, c, n - 1)

\* The currencies in which the postings of a list weigh.
WeightCurrencies(postings) ==
    { WeightCurrency(postings[k]) : k \in 1..Len(postings) }

\* C7: while calc_gains has not raised, every transaction weighs zero in
\* every currency, as it did when calc_gains was called: the change of
\* weight of the rewritten posting, the liquidation postings and the
\* counter-posting of a trade cancel, with and without lots_adjust.
C7_TransactionsStayBalanced ==
    pc # "raised" =>
        \A r \in 1..Len(heap) :
            \A c \in WeightCurrencies(heap[r].postings) :
                WeightSum(heap[r].postings, c, Len(heap[r].postings)) = ZERO

\* A finished call with lots_adjust in which a transaction received a
\* liquidation posting and a counter-posting and its trade was rewritten.
C7_Witness ==
    /\ pc = "done"
    /\ LotsAdjust
    /\ \E r \in 1..Len(heap) :
        /\ Len(heap[r].postings) = Len(input[r].postings) + 2
        /\ heap[r].postings[1] # input[r].postings[1]
        /\ heap[r].postings[4].account = CounterAccount
        /\ heap[r].postings[3].account = TrackedAccount

\* The inventory made of the postings in instrument cur that the tracked
\* account has among the first n postings, added to inv.
RECURSIVE AddPostings(_, _, _, _)
AddPostings(inv, postings, cur, n) ==
    IF n = 0 THEN inv
    ELSE LET rest == AddPostings(inv, postings, cur, n - 1)
             p == postings[n]
         IN  IF /\ p.account = ProcessedAccount
                /\ p.units.currency = cur
                /\ ~IsNone(p.cost)
             THEN add_position(rest, p)
             ELSE rest

\* What the account holds of the instrument of h after the transactions of
\* the first n trades of h, the entries being es.
RECURSIVE HoldingInventory(_, _, _)
HoldingInventory(es, h, n) ==
    IF n = 0 THEN <<>>
    ELSE AddPostings(HoldingInventory(es, h, n - 1),
                     es[h[n].postingId[1]].postings,
                     InputPosting(h[n]).units.currency,
                     Len(es[h[n].postingId[1]].postings))

\* The postings of the tracked account among postings m+1.. of a list.
RECURSIVE AccountPostingsFrom(_, _)
AccountPostingsFrom(postings, m) ==
    IF m >= Len(postings) THEN <<>>
    ELSE IF postings[m + 1].account = ProcessedAccount
    THEN <<postings[m + 1]>> \o AccountPostingsFrom(postings, m + 1)
    ELSE AccountPostingsFrom(postings, m + 1)

\* C8: with lots_adjust, an iteration of Account.process for a trade appends
\* to the trade's transaction one posting on the account negating each lot
\* held in the inventory, writes balance_before + quantity as the quantity
\* of the trade's posting, and leaves the inventory, and what the account
\* holds of the instrument according to the entries, as that one posting
\* (or empty when the new balance is zero).
C8_SingleLotAfterEachTrade ==
    [][(pc = "trade" /\ LotsAdjust /\ pc' # "raised") =>
        LET h == Histories[hIdx]
            trade == h[tIdx]
            pid == trade.postingId[2]
            was == HeapPostings(trade)
            now == heap'[trade.postingId[1]].postings
            liquidations == AccountPostingsFrom(now, Len(was))
            balance == RAdd(SumUnits(h, tIdx - 1), RecordedUnits(trade))
            lot == IF balance = ZERO THEN <<>>
                   ELSE <<Position(now[pid].units, now[pid].cost)>>
        IN  /\ Len(liquidations) = Len(inventory)
            /\ \A k \in 1..Len(inventory) :
                liquidations[k] =
                    Posting(ProcessedAccount,
                            Amount(Some(RNeg(Val(inventory[k].units.number))),
                                   inventory[k].units.currency),
                            inventory[k].cost, None, None, None)
            /\ now[pid].units.number = Some(balance)
            /\ inventory' = lot
            /\ HoldingInventory(heap', h, tIdx) = lot]_vars

\* With lots_adjust, a second acquisition of one unit after a first lot of
\* one unit was processed: its posting holds two units, next to a posting of
\* minus one unit of the old lot.
C8_Witness ==
    /\ LotsAdjust
    /\ \E hi \in 1..Len(Histories) :
        LET h == Histories[hi]
        IN  /\ Processed(hi, 2)
            /\ RecordedUnits(h[1]) = R(1) /\ RecordedUnits(h[2]) = R(1)
            /\ HeapPosting(h[2]).units.number = Some(R(2))
            /\ Len(HeapPostings(h[2])) >= 3
            /\ HeapPostings(h[2])[3].account = TrackedAccount
            /\ HeapPostings(h[2])[3].units.number = Some(R(-1))
            /\ HeapPostings(h[2])[3].cost = InputPosting(h[1]).cost

\* C6: a second call of calc_gains on the entries returned by a first call
\* appends no posting and changes no posting (here for an account without
\* lots_adjust): the entries at the end of the second call are the entries
\* it was given.
C6_SecondPassChangesNothing ==
    (run = 2 /\ pc = "done" /\ ~LotsAdjust) => heap = input

\* The postings calc_gains has to look at: those of a tracked account that
\* carry a cost or a price; the ones that became a trade; the ones rejected.
Candidates ==
    { id \in (1..Len(input)) \X (1..2) :
        /\ input[id[1]].type = "Transaction"
        /\ id[2] <= Len(input[id[1]].postings)
        /\ input[id[1]].postings[id[2]].account \in Tracked
        /\ \/ ~IsNone(input[id[1]].postings[id[2]].cost)
           \/ ~IsNone(input[id[1]].postings[id[2]].price) }
Accepted ==
    { Histories[id[1]][id[2]].postingId :
        id \in { x \in TradeIds : IsTrade(x[1], x[2]) } }
Rejected == Candidates \ Accepted

\* C9: the error list calc_gains returns holds an error for every rejected
\* posting.
C9_RejectionsReported ==
    (pc = "done" /\ run = 1) =>
        Len(Val(result).errors) >= Cardinality(Rejected)

\* C10: after the call, every entry of the caller's list has the postings it
\* had before the call.
C10_InputEntriesUnchanged ==
    (pc = "done" /\ run = 1) =>
        \A r \in 1..Len(input) : heap[r].postings = input[r].postings

\* ------------------------------------------------ histories of add_posting
\* The running balance an Account keeps for an instrument (0 before the
\* first trade) and the trades it holds for it.
RunningBalance(self, k) ==
    IF k \in Keys(self.last_balance) THEN Get(self.last_balance, k) ELSE ZERO
TradesOf(self, k) ==
    IF k \in Keys(self.history) THEN Get(self.history, k) ELSE <<>>
Instruments(self) == Keys(self.history) \cup Keys(self.last_balance)

\* postingId a comes before postingId b in the entries.
Before(a, b) == a[1] < b[1] \/ (a[1] = b[1] /\ a[2] < b[2])

\* Every history starts at balance_before 0, is in entry order, and each
\* trade starts at the balance the trade before it ended with.
Chained(self) ==
    \A k \in Keys(self.history) :
        LET h == Get(self.history, k)
        IN  \A i \in 1..Len(h) :
                IF i = 1 THEN h[i].balance = ZERO
                ELSE /\ h[i].balance = RAdd(h[i - 1].balance, h[i - 1].units)
                     /\ Before(h[i - 1].postingId, h[i].postingId)

\* The posting under the cursor is one add_posting rejects, or one the loop
\* rejects for its missing cost.
RejectedHere ==
    /\ AtPosting
    /\ CurPosting.account \in Tracked
    /\ ~(IsNone(CurPosting.cost) /\ IsNone(CurPosting.price))
    /\ \/ IsNone(CurPosting.cost)
       \/ IsNone(CurPosting.units.number)
       \/ LET self == accounts[CurPosting.account]
              k == CurPosting.units.currency
          IN  /\ k \in Keys(self.cost_currency)
              /\ Get(self.cost_currency, k) # Val(CurPosting.cost).currency
       \/ /\ ~IsNone(Val(CurPosting.cost).date)
          /\ Val(Val(CurPosting.cost).date) # heap[transId].date

\* C15: in every step of the collection loop the histories stay chained
\* (first trade at balance_before 0, each next trade at the balance_before
\* plus the quantity of the one before it, in entry order); a rejected
\* posting adds no trade and changes no running balance; an accepted
\* posting adds one trade at the end of the history of its instrument,
\* moves that instrument's running balance by its quantity and leaves the
\* histories and running balances of the other instruments alone.
C15_BalanceChaining ==
    [][\A a \in Tracked :
        LET old == accounts[a]
            new == accounts'[a]
        IN  /\ Chained(new)
            /\ RejectedHere =>
                  /\ new.history = old.history
                  /\ new.last_balance = old.last_balance
            /\ new.history # old.history =>
                  LET k == CurPosting.units.currency
                      number == Val(CurPosting.units.number)
                      h == TradesOf(new, k)
                  IN  /\ CurPosting.account = a
                      /\ Len(h) = Len(TradesOf(old, k)) + 1
                      /\ SubSeq(h, 1, Len(h) - 1) = TradesOf(old, k)
                      /\ h[Len(h)].postingId = <<transId, postId>>
                      /\ h[Len(h)].units = number
                      /\ h[Len(h)].balance = RunningBalance(old, k)
                      /\ RunningBalance(new, k) =
                             RAdd(RunningBalance(old, k), number)
                      /\ \A j \in Instruments(new) \ {k} :
                             /\ TradesOf(new, j) = TradesOf(old, j)
                             /\ RunningBalance(new, j) =
                                    RunningBalance(old, j)]_vars

\* A history of instrument X whose second trade starts at a non-zero
\* balance, with a rejected posting between its two trades.
C15_Witness ==
    LET self == accounts[ProcessedAccount]
        h == TradesOf(self, "X")
    IN  /\ Len(h) >= 2
        /\ h[2].balance # ZERO
        /\ \E id \in Rejected :
              Before(h[1].postingId, id) /\ Before(id, h[2].postingId)

\* C16: for every trade of every history, the total_units the scan of
\* get_realizing_cost_consideration holds when it reaches the trade is the
\* trade's balance_before; at a realizing trade it is not zero, and the scan
\* never fails on total_cost / total_units.
C16_ScanNeverDividesByZero ==
    /\ \A id \in TradeIds :
          IsTrade(id[1], id[2]) =>
            LET h == Histories[id[1]]
                trade == h[id[2]]
                total_units == Scan(h, id[2] - 1).total_units
            IN  /\ total_units = trade.balance
                /\ trade.realizing => total_units # ZERO
    /\ \A hi \in 1..Len(Histories) :
          ~get_realizing_cost_consideration(Histories[hi]).failed

\* The scan has run over a history whose realizing trade follows a rejected
\* posting.
C16_Witness ==
    /\ pc = "trade"
    /\ \E i \in 2..Len(Histories[hIdx]) :
          /\ Histories[hIdx][i].realizing
          /\ \E id \in Rejected : Before(id, Histories[hIdx][i].postingId)

\* C17: every trade of every history has a non-zero quantity, and the call
\* never raises.
C17_AcceptedTradesNonZero ==
    /\ \A id \in TradeIds :
          IsTrade(id[1], id[2]) => Histories[id[1]][id[2]].units # ZERO
    /\ pc # "raised"

\* ================================================================ amortize
\* Bounds of the amortize ledgers: entries per ledger, months of a term.
MaxEntries == 2
MaxMonths == 3

\* 10 ** k
RECURSIVE Pow10(_)
Pow10(k) == IF k = 0 THEN 1 ELSE 10 * Pow10(k - 1)

\* The integer nearest to x, the even one of two equally near
\* (ROUND_HALF_EVEN, the rounding of Decimal.__round__).
RoundHalfEven(x) ==
    LET floor == x[1] \div x[2]
        rest == x[1] - floor * x[2]
    IN  IF 2 * rest < x[2] THEN floor
        ELSE IF 2 * rest > x[2] THEN floor + 1
        ELSE IF floor % 2 = 0 THEN floor ELSE floor + 1

\* round(x, decimals) of a Decimal x
Round(x, decimals) ==
    RDiv(R(RoundHalfEven(RMul(x, R(Pow10(decimals))))), R(Pow10(decimals)))

\* datetime.date
Date(year, month, day) == [year |-> year, month |-> month, day |-> day]
IsLeap(year) == (year % 4 = 0 /\ year % 100 # 0) \/ year % 400 = 0
DaysInMonth(year, month) ==
    IF month = 2 THEN (IF IsLeap(year) THEN 29 ELSE 28)
    ELSE IF month \in {4, 6, 9, 11} THEN 30 ELSE 31
Min(a, b) == IF a <= b THEN a ELSE b

\* date + relativedelta(months=i): the day is cut to the length of the month
AddMonths(date, i) ==
    LET total == date.year * 12 + (date.month - 1) + i
        year == total \div 12
        month == (total % 12) + 1
    IN  Date(year, month, Min(date.day, DaysInMonth(year, month)))

\* date + relativedelta(day=d)
SetDay(date, d) ==
    Date(date.year, date.month, Min(d, DaysInMonth(date.year, date.month)))

\* Mutant of CashflowDate: the day of the month is kept.
CashflowDateSameDay(date, i) == AddMonths(date, i)

\* entry.date + relativedelta(months=i) + relativedelta(day=31)
CashflowDate(date, i) == SetDay(AddMonths(date, i), 31)

\* Decimal(round(remaining_amt / (amort_months - i), decimals))
CashflowAmt(remaining_amt, amort_months, i, decimals) ==
    Round(RDiv(remaining_amt, R(amort_months - i)), decimals)

\* d.get(k, default) of a dict
GetOr(d, k, default) == IF k \in Keys(d) THEN Get(d, k) ELSE default

\* for i in range(amort_months): the dict amts (cashflow[key], a
\* defaultdict(Decimal)) after iterations i.. of the loop.
RECURSIVE AddInstallments(_, _, _, _, _, _)
AddInstallments(amts, remaining_amt, amort_months, i, decimals, date) ==
    IF i >= amort_months THEN amts
    ELSE LET cashflow_amt ==
                 CashflowAmt(remaining_amt, amort_months, i, decimals)
             cashflow_date == CashflowDate(date, i)
         IN  AddInstallments(
                 Put(amts, cashflow_date,
                     RAdd(GetOr(amts, cashflow_date, ZERO), cashflow_amt)),
                 RSub(remaining_amt, cashflow_amt),
                 amort_months, i + 1, decimals, date)

\* An account name is the list of its components: Expenses:Software is
\* <<"Expenses", "Software">>.
\* config_acct.startswith(prefix + ":")
StartsWith(acct, prefix) == Len(acct) >= 2 /\ acct[1] = prefix
\* config_acct.replace(prefix + ":", "Equity:Amortization:")
RECURSIVE Replace(_, _)
Replace(acct, prefix) ==
    IF Len(acct) <= 1 THEN acct
    ELSE IF Head(acct) = prefix
    THEN <<"Equity", "Amortization">> \o Replace(Tail(acct), prefix)
    ELSE <<Head(acct)>> \o Replace(Tail(acct), prefix)

Software == <<"Expenses", "Software">>
Rent == <<"Income", "Rent">>
Cash == <<"Assets", "Cash">>

\* data.Transaction with the fields amortize reads and writes
Txn(meta, date, flag, payee, narration, tags, links, postings) ==
    [type |-> "Transaction", meta |-> meta, date |-> date, flag |-> flag,
     payee |-> payee, narration |-> narration, tags |-> tags,
     links |-> links, postings |-> postings]

\* entry.meta of entry n of the ledger
Meta(n) == <<<<"filename", "ledger">>, <<"lineno", n>>>>

\* A ledger transaction: number currency on account, paid from Assets:Cash.
Spend(n, date, tags, account, number, currency, meta) ==
    Txn(meta, date, "*", None, "spend", tags, {},
        <<Posting(account, Amount(Some(number), currency), None, None,
                  None, None),
          Posting(Cash, Amount(Some(RNeg(number)), currency), None, None,
                  None, None)>>)

\* The entries a ledger can hold as its entry n.
AmortizeEntries(n) ==
    { Spend(n, Date(2023, 1, 15), {}, Software, R(1), "GBP", Meta(n)),
      Spend(n, Date(2023, 1, 15), {}, Software, R(-1), "GBP", Meta(n)),
      Spend(n, Date(2023, 1, 31), {}, Software, <<1, 4>>, "GBP", Meta(n)),
      Spend(n, Date(2023, 1, 15), {"t"}, Software, R(1), "GBP", Meta(n)),
      Spend(n, Date(2023, 1, 15), {"t", "u"}, Software, R(1), "GBP", Meta(n)),
      Spend(n, Date(2023, 1, 15), {}, Software, ZERO, "GBP", Meta(n)),
      Spend(n, Date(2023, 1, 15), {}, Software, R(1), "GBP",
            Append(Meta(n), <<"amortization_months", 1>>)),
      Spend(n, Date(2023, 1, 15), {}, Rent, R(-1), "GBP", Meta(n)),
      [type |-> "Open", meta |-> Meta(n), date |-> Date(2023, 1, 15)],
      Spend(n, Date(2023, 2, 15), {}, Software, R(1), "GBP", Meta(n)),
      Spend(n, Date(2023, 12, 31), {}, Software, <<1, 2>>, "USD", Meta(n)) }

\* date a is not after date b
NotAfter(a, b) ==
    \/ a.year < b.year
    \/ a.year = b.year /\ a.month < b.month
    \/ a.year = b.year /\ a.month = b.month /\ a.day <= b.day

\* Ledgers of n entries in date order.
RECURSIVE AmortizeLedgersOf(_)
AmortizeLedgersOf(n) ==
    IF n = 0 THEN {<<>>}
    ELSE { Append(x[1], x[2]) :
             x \in { y \in AmortizeLedgersOf(n - 1) \X AmortizeEntries(n) :
                       \/ Len(y[1]) = 0
                       \/ NotAfter(y[1][Len(y[1])].date, y[2].date) } }

AmortizeLedgers == AmortizeLedgersOf(MaxEntries)

\* The configurations: Expenses:Software over 1..MaxMonths months with the
\* default or a configured number of decimals; no accounts; an account
\* without months; an account that is neither Expenses nor Income; two
\* accounts.
AmortizeConfigs ==
    { [accounts |-> <<<<Software, <<<<"months", months>>>> \o decimals>>>>] :
        months \in 1..MaxMonths,
        decimals \in {<<>>, <<<<"decimals", 0>>>>, <<<<"decimals", 1>>>>} }
    \cup { [accounts |-> <<>>],
           [accounts |-> <<<<Software, <<>>>>>>],
           [accounts |-> <<<<Cash, <<<<"months", 1>>>>>>>>],
           [accounts |-> <<<<Rent, <<<<"months", 1>>>>>>,
                           <<Software, <<<<"months", 2>>>>>>>>] }

\* The variables amortize leaves alone.
notAmortize == <<calcVars, run, closed_accounts, residual_inventories,
                 balancing_txns>>

\* The state at the call amortize(entries, _, config_str).
AmortizeInit ==
    \E l \in AmortizeLedgers, c \in AmortizeConfigs :
        /\ config = c
        /\ input = l
        /\ new_entries = None
        /\ errors = <<>>
        /\ pc = "config"
        /\ transId = 1
        /\ postId = 1
        /\ result = None
        /\ run = 1
        /\ heap = <<>>
        /\ accounts = <<>>
        /\ hIdx = 0
        /\ tIdx = 0
        /\ adjs = <<>>
        /\ inventory = <<>>
        /\ NoPlugin

\* AmortizeError(source, message, entry)
AmortizeError(source, message, entry) ==
    [source |-> source, message |-> message, entry |-> entry]

\* if not accounts: return entries, [AmortizeError(...)]
AmortizeNoAccounts ==
    /\ pc = "config"
    /\ config.accounts = <<>>
    /\ result' = Some([entries |-> input,
                       errors |-> <<AmortizeError(None, "no accounts defined",
                                                  None)>>])
    /\ pc' = "done"
    /\ UNCHANGED <<config, input, new_entries, errors, transId, postId,
                   acctIdx, cashflow, src, keyIdx, dateIdx, notAmortize>>

\* new_entries = entries[:]; errors = []
AmortizeConfigured ==
    /\ pc = "config"
    /\ config.accounts # <<>>
    /\ new_entries' = input
    /\ errors' = <<>>
    /\ acctIdx' = 1
    /\ pc' = "account"
    /\ UNCHANGED <<config, input, transId, postId, result, cashflow, src,
                   keyIdx, dateIdx, notAmortize>>

\* The locals of an iteration of `for config_acct, acct_config in
\* accounts.items()`.
AtAccount == acctIdx \in 1..Len(config.accounts)
ConfigAcct == config.accounts[acctIdx][1]
AcctConfig == config.accounts[acctIdx][2]
IsExpenses == StartsWith(ConfigAcct, "Expenses")
IsIncome == StartsWith(ConfigAcct, "Income")
Acct ==
    IF IsExpenses THEN Replace(ConfigAcct, "Expenses")
    ELSE Replace(ConfigAcct, "Income")
CounterAcct == ConfigAcct
Months ==
    IF "months" \in Keys(AcctConfig) THEN Some(Get(AcctConfig, "months"))
    ELSE None
Decimals == GetOr(AcctConfig, "decimals", 2)

\* raise Exception("amortize requires Expenses: or Income: accounts ...")
AmortizeRaise ==
    /\ pc = "account"
    /\ AtAccount
    /\ ~IsExpenses /\ ~IsIncome
    /\ pc' = "raised"
    /\ UNCHANGED <<config, input, new_entries, errors, transId, postId,
                   result, acctIdx, cashflow, src, keyIdx, dateIdx,
                   notAmortize>>

\* The head of an iteration of the loop over accounts: the error for missing
\* months (after which the iteration goes on), cashflow = {}, src = {}.
AmortizeAccount ==
    /\ pc = "account"
    /\ AtAccount
    /\ IsExpenses \/ IsIncome
    /\ errors' = IF IsNone(Months)
                 THEN Append(errors,
                             AmortizeError(None, "no months for account", None))
                 ELSE errors
    /\ cashflow' = <<>>
    /\ src' = <<>>
    /\ transId' = 1
    /\ postId' = 1
    /\ pc' = "collect"
    /\ UNCHANGED <<config, input, new_entries, result, acctIdx, keyIdx,
                   dateIdx, notAmortize>>

\* The loops over entries and postings stand at posting postId of entry
\* transId.
AmortizeCollecting == pc = "collect" /\ transId <= Len(input)
AmortizeAtPosting ==
    /\ AmortizeCollecting
    /\ input[transId].type = "Transaction"
    /\ postId <= Len(input[transId].postings)
Entry == input[transId]
Post == input[transId].postings[postId]
AmortizeNextPosting ==
    IF postId < Len(input[transId].postings)
    THEN transId' = transId /\ postId' = postId + 1
    ELSE transId' = transId + 1 /\ postId' = 1

\* if not isinstance(entry, Transaction): continue
AmortizeSkipEntry ==
    /\ AmortizeCollecting
    /\ input[transId].type # "Transaction"
    /\ transId' = transId + 1
    /\ postId' = 1
    /\ UNCHANGED <<config, input, new_entries, errors, pc, result, acctIdx,
                   cashflow, src, keyIdx, dateIdx, notAmortize>>

\* if post.account != config_acct: continue
AmortizeSkipPosting ==
    /\ AmortizeAtPosting
    /\ Post.account # ConfigAcct
    /\ AmortizeNextPosting
    /\ UNCHANGED <<config, input, new_entries, errors, pc, result, acctIdx,
                   cashflow, src, keyIdx, dateIdx, notAmortize>>

\* if len(entry.tags) > 1: errors.append(...); continue
AmortizeTagError ==
    /\ AmortizeAtPosting
    /\ Post.account = ConfigAcct
    /\ Cardinality(Entry.tags) > 1
    /\ errors' = Append(errors,
                        AmortizeError(Entry.meta,
                                      "must be zero or one tag only", Entry))
    /\ AmortizeNextPosting
    /\ UNCHANGED <<config, input, new_entries, pc, result, acctIdx,
                   cashflow, src, keyIdx, dateIdx, notAmortize>>

\* not post.units or not post.units.number
NoUnits(post) == IsNone(post.units.number) \/ Val(post.units.number) = ZERO

\* if not post.units or not post.units.number: errors.append(...); continue
AmortizeUnitsError ==
    /\ AmortizeAtPosting
    /\ Post.account = ConfigAcct
    /\ Cardinality(Entry.tags) <= 1
    /\ NoUnits(Post)
    /\ errors' = Append(errors,
                        AmortizeError(Entry.meta,
                                      "cannot amortize a posting without units",
                                      Entry))
    /\ AmortizeNextPosting
    /\ UNCHANGED <<config, input, new_entries, pc, result, acctIdx,
                   cashflow, src, keyIdx, dateIdx, notAmortize>>

\* The posting under the cursor is one amortize spreads over its term.
Amortized ==
    /\ AmortizeAtPosting
    /\ Post.account = ConfigAcct
    /\ Cardinality(Entry.tags) <= 1
    /\ ~NoUnits(Post)

\* tag = next(iter(entry.tags)) if entry.tags else ""
\* key = (tag, post.units.currency)
KeyOf(entry, post) ==
    <<IF entry.tags = {} THEN "" ELSE CHOOSE t \in entry.tags : TRUE,
      post.units.currency>>

\* amort_months: months, or int(entry.meta["amortization_months"])
AmortMonths(entry, months) ==
    IF "amortization_months" \in Keys(entry.meta)
    THEN Some(Get(entry.meta, "amortization_months"))
    ELSE months

\* if key not in cashflow: cashflow[key] = defaultdict(Decimal); src[key] =
\* {"lineno": ..., "filename": ...}
WithKey(d, key, v) == IF key \in Keys(d) THEN d ELSE Put(d, key, v)
SrcOf(entry) ==
    <<<<"lineno", Get(entry.meta, "lineno")>>,
      <<"filename", Get(entry.meta, "filename")>>>>

\* range(amort_months) with amort_months None raises TypeError.
AmortizeRangeRaise ==
    /\ Amortized
    /\ IsNone(AmortMonths(Entry, Months))
    /\ cashflow' = WithKey(cashflow, KeyOf(Entry, Post), <<>>)
    /\ src' = WithKey(src, KeyOf(Entry, Post), SrcOf(Entry))
    /\ pc' = "raised"
    /\ UNCHANGED <<config, input, new_entries, errors, transId, postId,
                   result, acctIdx, keyIdx, dateIdx, notAmortize>>

\* The body of the loop over postings for a posting that is amortized:
\* remaining_amt = -1 * post.units.number and the loop over the months.
AmortizePosting ==
    /\ Amortized
    /\ ~IsNone(AmortMonths(Entry, Months))
    /\ LET key == KeyOf(Entry, Post)
           cashflow1 == WithKey(cashflow, key, <<>>)
           remaining_amt == RMul(R(-1), Val(Post.units.number))
           amort_months == Val(AmortMonths(Entry, Months))
       IN  /\ cashflow' =
                Put(cashflow1, key,
                    AddInstallments(Get(cashflow1, key), remaining_amt,
                                    amort_months, 0, Decimals, Entry.date))
           /\ src' = WithKey(src, key, SrcOf(Entry))
    /\ AmortizeNextPosting
    /\ UNCHANGED <<config, input, new_entries, errors, pc, result, acctIdx,
                   keyIdx, dateIdx, notAmortize>>

\* The loop over entries is over: for key, amts in cashflow.items()
AmortizeCollected ==
    /\ pc = "collect"
    /\ transId > Len(input)
    /\ keyIdx' = 1
    /\ dateIdx' = 1
    /\ pc' = "emit"
    /\ UNCHANGED <<config, input, new_entries, errors, transId, postId,
                   result, acctIdx, cashflow, src, notAmortize>>

\* The loops over cashflow.items() and amts.items() stand at a date.
AtFlow ==
    /\ pc = "emit"
    /\ keyIdx <= Len(cashflow)
    /\ dateIdx <= Len(cashflow[keyIdx][2])
FlowKey == cashflow[keyIdx][1]
FlowDate == cashflow[keyIdx][2][dateIdx][1]
FlowAmt == cashflow[keyIdx][2][dateIdx][2]

\* if amt == Decimal(0): continue
AmortizeSkipZero ==
    /\ AtFlow
    /\ FlowAmt = ZERO
    /\ dateIdx' = dateIdx + 1
    /\ UNCHANGED <<config, input, new_entries, errors, pc, transId, postId,
                   result, acctIdx, cashflow, src, keyIdx, notAmortize>>

\* The Transaction appended for key, date and amt.
Adjustment(key, date, amt) ==
    Txn(Get(src, key), date, "*", "Amortized",
        IF key[1] # "" THEN <<"Amortization Adjustment for", key[1]>>
        ELSE <<"Amortization Adjustment">>,
        IF key[1] # "" THEN {key[1], "amort"} ELSE {"amort"},
        {},
        <<Posting(Acct, Amount(Some(amt), key[2]), None, None, None, <<>>),
          Posting(CounterAcct, Amount(Some(RMul(R(-1), amt)), key[2]),
                  None, None, None, <<>>)>>)

\* new_entries.append(Transaction(...))
AmortizeEmit ==
    /\ AtFlow
    /\ FlowAmt # ZERO
    /\ new_entries' =
         Append(new_entries, Adjustment(FlowKey, FlowDate, FlowAmt))
    /\ dateIdx' = dateIdx + 1
    /\ UNCHANGED <<config, input, errors, pc, transId, postId, result,
                   acctIdx, cashflow, src, keyIdx, notAmortize>>

\* The dates of a key are done: the next key.
AmortizeNextKey ==
    /\ pc = "emit"
    /\ keyIdx <= Len(cashflow)
    /\ dateIdx > Len(cashflow[keyIdx][2])
    /\ keyIdx' = keyIdx + 1
    /\ dateIdx' = 1
    /\ UNCHANGED <<config, input, new_entries, errors, pc, transId, postId,
                   result, acctIdx, cashflow, src, notAmortize>>

\* The keys are done: the next configured account.
AmortizeNextAccount ==
    /\ pc = "emit"
    /\ keyIdx > Len(cashflow)
    /\ acctIdx' = acctIdx + 1
    /\ pc' = "account"
    /\ UNCHANGED <<config, input, new_entries, errors, transId, postId,
                   result, cashflow, src, keyIdx, dateIdx, notAmortize>>

\* return new_entries, errors
AmortizeReturn ==
    /\ pc = "account"
    /\ acctIdx > Len(config.accounts)
    /\ result' = Some([entries |-> new_entries, errors |-> errors])
    /\ pc' = "done"
    /\ UNCHANGED <<config, input, new_entries, errors, transId, postId,
                   acctIdx, cashflow, src, keyIdx, dateIdx, notAmortize>>

AmortizeNext ==
    \/ AmortizeNoAccounts
    \/ AmortizeConfigured
    \/ AmortizeRaise
    \/ AmortizeAccount
    \/ AmortizeSkipEntry
    \/ AmortizeSkipPosting
    \/ AmortizeTagError
    \/ AmortizeUnitsError
    \/ AmortizeRangeRaise
    \/ AmortizePosting
    \/ AmortizeCollected
    \/ AmortizeSkipZero
    \/ AmortizeEmit
    \/ AmortizeNextKey
    \/ AmortizeNextAccount
    \/ AmortizeReturn

SpecAmortize == AmortizeInit /\ [][AmortizeNext]_vars

\* ---------------------------------------------------- amortize: properties
\* The sum of the amounts of a dict date -> amount, and of all the dicts of
\* a cashflow.
RECURSIVE SumAmts(_, _)
SumAmts(amts, n) ==
    IF n = 0 THEN ZERO ELSE RAdd(SumAmts(amts, n - 1), amts[n][2])
RECURSIVE FlowTotal(_, _)
FlowTotal(cf, n) ==
    IF n = 0 THEN ZERO
    ELSE RAdd(FlowTotal(cf, n - 1), SumAmts(cf[n][2], Len(cf[n][2])))

\* C11: the installments amortize adds to cashflow for a posting of amount S
\* spread over N >= 1 months sum to -S (the amounts then posted to the
\* configured account sum to S), whatever S and the configured decimals.
C11_InstallmentsSumToAmount ==
    [][(/\ Amortized
        /\ ~IsNone(AmortMonths(Entry, Months))
        /\ Val(AmortMonths(Entry, Months)) >= 1)
       => RSub(FlowTotal(cashflow', Len(cashflow')),
               FlowTotal(cashflow, Len(cashflow)))
            = RNeg(Val(Post.units.number))]_vars

\* The month-end date of the month i months after the month of a date.
MonthEnd(date, i) ==
    LET total == date.year * 12 + (date.month - 1) + i
    IN  Date(total \div 12, (total % 12) + 1,
             DaysInMonth(total \div 12, (total % 12) + 1))

\* What is left of the amount S of a posting before installment i of a term
\* of N months, and installment i.
RECURSIVE RemainingBefore(_, _, _, _)
RemainingBefore(S, N, i, decimals) ==
    IF i = 0 THEN RNeg(S)
    ELSE RSub(RemainingBefore(S, N, i - 1, decimals),
              CashflowAmt(RemainingBefore(S, N, i - 1, decimals), N, i - 1,
                          decimals))
InstallmentOf(S, N, i, decimals) ==
    CashflowAmt(RemainingBefore(S, N, i, decimals), N, i, decimals)

\* The sum of the installments 0..i-1 of a posting that fall on a date.
RECURSIVE SumInstallments(_, _, _, _, _, _)
SumInstallments(S, N, decimals, from, date, i) ==
    IF i = 0 THEN ZERO
    ELSE RAdd(SumInstallments(S, N, decimals, from, date, i - 1),
              IF MonthEnd(from, i - 1) = date
              THEN InstallmentOf(S, N, i - 1, decimals) ELSE ZERO)

\* The term and the decimals of a posting of configured account a.
TermOf(a, entry) ==
    IF "amortization_months" \in Keys(entry.meta)
    THEN Get(entry.meta, "amortization_months")
    ELSE Get(config.accounts[a][2], "months")
DecimalsOf(a) ==
    IF "decimals" \in Keys(config.accounts[a][2])
    THEN Get(config.accounts[a][2], "decimals") ELSE 2

\* The group of a transaction: its tag ("" without one) and a currency.
GroupOf(tags, currency) ==
    <<IF tags = {} THEN "" ELSE CHOOSE t \in tags : TRUE, currency>>

\* What posting p of entry e contributes to the group key of configured
\* account a on a date: the postings of the account with non-zero units, in
\* transactions of at most one tag.
Share(a, e, p, key, date) ==
    IF /\ input[e].type = "Transaction"
       /\ p <= Len(input[e].postings)
       /\ input[e].postings[p].account = config.accounts[a][1]
       /\ Cardinality(input[e].tags) <= 1
       /\ ~IsNone(input[e].postings[p].units.number)
       /\ Val(input[e].postings[p].units.number) # ZERO
       /\ GroupOf(input[e].tags, input[e].postings[p].units.currency) = key
    THEN SumInstallments(Val(input[e].postings[p].units.number),
                         TermOf(a, input[e]), DecimalsOf(a), input[e].date,
                         date, TermOf(a, input[e]))
    ELSE ZERO

\* The sum of the installments of a group falling on a date, over the
\* postings 1..2 of the entries 1..n.
RECURSIVE GroupSum(_, _, _, _)
GroupSum(a, key, date, n) ==
    IF n = 0 THEN ZERO
    ELSE RAdd(GroupSum(a, key, date, n - 1),
              RAdd(Share(a, n, 1, key, date), Share(a, n, 2, key, date)))

\* The groups and month-end dates a ledger can give rise to.
Groups == {"", "t", "u"} \X {"GBP", "USD"}
MonthEnds == { MonthEnd(Date(2023, 1, 1), j) : j \in 0..(12 + MaxMonths) }

\* The transactions amortize appended, and the ones of them for configured
\* account a, a group and a date.
Generated ==
    SubSeq(Val(result).entries, Len(input) + 1, Len(Val(result).entries))
GeneratedFor(a, key, date) ==
    { g \in 1..Len(Generated) :
        /\ Generated[g].postings[2].account = config.accounts[a][1]
        /\ GroupOf(Generated[g].tags \ {"amort"},
                   Generated[g].postings[1].units.currency) = key
        /\ Generated[g].date = date }

\* C12: amortize returns the original entries unchanged, followed by
\* exactly one transaction for each configured account, (tag, currency)
\* group and month-end date on which the installments of the group
\* (installment i of a posting dated in month m falls on the end of month
\* m + i) have a non-zero sum, with two postings: that sum on the
\* Equity:Amortization account and its opposite on the configured account;
\* and no other transaction.
C12_OneTransactionPerGroupAndMonthEnd ==
    (pc = "done" /\ config.accounts # <<>>) =>
        /\ SubSeq(Val(result).entries, 1, Len(input)) = input
        /\ \A a \in 1..Len(config.accounts), key \in Groups,
              date \in MonthEnds :
              LET sum == GroupSum(a, key, date, Len(input))
                  account == config.accounts[a][1]
              IN  /\ Cardinality(GeneratedFor(a, key, date)) =
                        IF sum = ZERO THEN 0 ELSE 1
                  /\ \A g \in GeneratedFor(a, key, date) :
                        Generated[g].postings =
                          <<Posting(<<"Equity", "Amortization">>
                                        \o Tail(account),
                                    Amount(Some(sum), key[2]),
                                    None, None, None, <<>>),
                            Posting(account,
                                    Amount(Some(RNeg(sum)), key[2]),
                                    None, None, None, <<>>)>>
        /\ \A g \in 1..Len(Generated) :
              \E a \in 1..Len(config.accounts), key \in Groups,
                 date \in MonthEnds : g \in GeneratedFor(a, key, date)

\* A posting of 1 in January and one of 1 in February, each over two
\* months: three transactions follow the two entries, the one at the end of
\* February carrying both installments.
C12_Witness ==
    /\ pc = "done"
    /\ Len(input) = 2
    /\ config.accounts # <<>>
    /\ Len(Val(result).entries) = 5
    /\ input[1].date = Date(2023, 1, 15)
    /\ input[2].date = Date(2023, 2, 15)
    /\ Val(result).entries[3].date = Date(2023, 1, 31)
    /\ Val(result).entries[4].date = Date(2023, 2, 28)
    /\ Val(result).entries[5].date = Date(2023, 3, 31)
    /\ Val(result).entries[4].postings[1].units.number = Some(R(-1))
    /\ Val(result).entries[4].postings[2].units.number = Some(R(1))

\* ===================================================== clear_residual_lots
Investments == "Assets:Investments"
Broker == "Assets:Broker"
CashAccount == "Assets:Cash"
\* The balancing (write-down) account of the configuration string.
BalanceAccount == "Equity:Gains"

\* data.Close
Close(account, d) == [type |-> "Close", date |-> d, account |-> account]

\* A posting of u units of TEST held at p USD in the lot dated d.
Lot(account, u, p, d) ==
    Posting(account, Amount(Some(R(u)), "TEST"),
            Some(Cost(R(p), "USD", Some(d))), None, None, None)

\* A transaction dated d of one posting and its leg on Assets:Cash.
Deal(d, posting) ==
    Transaction(d, <<posting,
                     Posting(CashAccount,
                             Amount(Some(RNeg(Weight(posting))), "USD"),
                             None, None, None, None)>>)

\* The entries a ledger can hold as its entry n, dated n: a buy; a sell of
\* the lot of entry 1; a sell at another cost (under NONE booking it matches
\* no lot); a buy on a second account; cash on the account; a lot on the
\* balancing account; the close of each of the three accounts; an open.
ClearEntries(n) ==
    { Deal(n, Lot(Investments, 1, 1, n)),
      Deal(n, Lot(Investments, -1, 1, 1)),
      Deal(n, Lot(Investments, -1, 2, n)),
      Deal(n, Lot(Broker, 1, 1, n)),
      Deal(n, Posting(Investments, Amount(Some(R(1)), "USD"), None, None,
                      None, None)),
      Deal(n, Lot(BalanceAccount, 1, 1, n)),
      Close(Investments, n),
      Close(Broker, n),
      Close(BalanceAccount, n),
      Open(n) }

RECURSIVE ClearLedgersOf(_)
ClearLedgersOf(n) ==
    IF n = 0 THEN {<<>>}
    ELSE { Append(l, e) : l \in ClearLedgersOf(n - 1), e \in ClearEntries(n) }

ClearLedgers == ClearLedgersOf(MaxTxns)

\* The variables clear_residual_lots leaves alone.
notClear == <<calcVars, new_entries, errors, acctIdx, cashflow, src, dateIdx>>

\* The state at a call clear_residual_lots(entries, _, config_str), the
\* n-th of a run.
ClearCall(entries, config_str, n) ==
    /\ config = config_str
    /\ input = entries
    /\ new_entries = None
    /\ errors = <<>>
    /\ pc = "config"
    /\ transId = 1
    /\ postId = 1
    /\ result = None
    /\ run = n
    /\ heap = <<>>
    /\ accounts = <<>>
    /\ hIdx = 0
    /\ tIdx = 0
    /\ adjs = <<>>
    /\ inventory = <<>>
    /\ NoPlugin

ClearInit ==
    \E l \in ClearLedgers, config_str \in {BalanceAccount, ""} :
        ClearCall(l, config_str, 1)

\* if not config_str: raise ValueError(...)
ClearRaise ==
    /\ pc = "config"
    /\ config = ""
    /\ pc' = "raised"
    /\ UNCHANGED <<config, input, transId, postId, result, run, keyIdx,
                   closed_accounts, residual_inventories, balancing_txns,
                   notClear>>

\* {entry.account: entry.date for entry in entries
\*  if isinstance(entry, data.Close)}, over the first n entries
RECURSIVE ClosedAccounts(_, _)
ClosedAccounts(entries, n) ==
    IF n = 0 THEN <<>>
    ELSE IF entries[n].type = "Close"
    THEN Put(ClosedAccounts(entries, n - 1), entries[n].account,
             entries[n].date)
    ELSE ClosedAccounts(entries, n - 1)

\* if not closed_accounts: return entries, []
ClearNothingClosed ==
    /\ pc = "config"
    /\ config # ""
    /\ ClosedAccounts(input, Len(input)) = <<>>
    /\ closed_accounts' = <<>>
    /\ result' = Some([entries |-> input, errors |-> <<>>])
    /\ pc' = "done"
    /\ UNCHANGED <<config, input, transId, postId, run, keyIdx,
                   residual_inventories, balancing_txns, notClear>>

\* closed_accounts = {...}; residual_inventories = defaultdict(Inventory)
ClearFindClosed ==
    /\ pc = "config"
    /\ config # ""
    /\ ClosedAccounts(input, Len(input)) # <<>>
    /\ closed_accounts' = ClosedAccounts(input, Len(input))
    /\ residual_inventories' = <<>>
    /\ transId' = 1
    /\ postId' = 1
    /\ pc' = "collect"
    /\ UNCHANGED <<config, input, result, run, keyIdx, balancing_txns,
                   notClear>>

\* The loops over entries and postings stand at posting postId of entry
\* transId.
ClearScanning == pc = "collect" /\ transId <= Len(input)
ClearAtPosting ==
    /\ ClearScanning
    /\ input[transId].type = "Transaction"
    /\ postId <= Len(input[transId].postings)
ClearNextPosting ==
    IF postId < Len(input[transId].postings)
    THEN transId' = transId /\ postId' = postId + 1
    ELSE transId' = transId + 1 /\ postId' = 1

\* if isinstance(entry, data.Transaction): ... (else the next entry)
ClearSkipEntry ==
    /\ ClearScanning
    /\ input[transId].type # "Transaction"
    /\ transId' = transId + 1
    /\ postId' = 1
    /\ UNCHANGED <<config, input, pc, result, run, keyIdx, closed_accounts,
                   residual_inventories, balancing_txns, notClear>>

\* if posting.account in closed_accounts: ... (else the next posting)
ClearSkipPosting ==
    /\ ClearAtPosting
    /\ input[transId].postings[postId].account \notin Keys(closed_accounts)
    /\ ClearNextPosting
    /\ UNCHANGED <<config, input, pc, result, run, keyIdx, closed_accounts,
                   residual_inventories, balancing_txns, notClear>>

\* residual_inventories[posting.account].add_position(posting)
ClearAddPosition ==
    /\ ClearAtPosting
    /\ input[transId].postings[postId].account \in Keys(closed_accounts)
    /\ LET posting == input[transId].postings[postId]
       IN  residual_inventories' =
               Put(residual_inventories, posting.account,
                   add_position(GetOr(residual_inventories, posting.account,
                                      <<>>),
                                posting))
    /\ ClearNextPosting
    /\ UNCHANGED <<config, input, pc, result, run, keyIdx, closed_accounts,
                   balancing_txns, notClear>>

\* balancing_txns = {}; for account, residual_inv in
\* residual_inventories.items()
ClearScanned ==
    /\ pc = "collect"
    /\ transId > Len(input)
    /\ balancing_txns' = <<>>
    /\ keyIdx' = 1
    /\ pc' = "emit"
    /\ UNCHANGED <<config, input, transId, postId, result, run,
                   closed_accounts, residual_inventories, notClear>>

\* The loop over residual_inventories.items() stands at an account.
AtResidual == pc = "emit" /\ keyIdx <= Len(residual_inventories)
ResidualAccount == residual_inventories[keyIdx][1]
ResidualInv == residual_inventories[keyIdx][2]

\* if residual_inv.is_empty(): continue
ClearSkipEmpty ==
    /\ AtResidual
    /\ ResidualInv = <<>>
    /\ keyIdx' = keyIdx + 1
    /\ UNCHANGED <<config, input, pc, transId, postId, result, run,
                   closed_accounts, residual_inventories, balancing_txns,
                   notClear>>

\* Mutant of BalancingPostings: the lot is negated without its cost.
RECURSIVE BalancingPostingsNoCost(_, _, _, _)
BalancingPostingsNoCost(account, balance_account, inv, n) ==
    IF n = 0 THEN <<>>
    ELSE BalancingPostingsNoCost(account, balance_account, inv, n - 1) \o
         IF Val(inv[n].units.number) = ZERO THEN <<>>
         ELSE <<Posting(account,
                        Amount(Some(RNeg(Val(inv[n].units.number))),
                               inv[n].units.currency),
                        None, None, None, None),
                Posting(balance_account, inv[n].units, inv[n].cost,
                        None, None, None)>>

\* for pos in residual_inv.get_positions(): the list postings after the
\* first n positions
RECURSIVE BalancingPostings(_, _, _, _)
BalancingPostings(account, balance_account, inv, n) ==
    IF n = 0 THEN <<>>
    ELSE BalancingPostings(account, balance_account, inv, n - 1) \o
         IF Val(inv[n].units.number) = ZERO THEN <<>>
         ELSE <<Posting(account,
                        Amount(Some(RNeg(Val(inv[n].units.number))),
                               inv[n].units.currency),
                        inv[n].cost, None, None, None),
                Posting(balance_account, inv[n].units, inv[n].cost,
                        None, None, None)>>

\* Mutant of BalancingDate: the close date itself.
BalancingDateOfClose(close_date) == close_date

\* balancing_date = close_date - timedelta(days=1)
BalancingDate(close_date) == close_date - 1

\* data.Transaction(meta, balancing_date, FLAG_OKAY, "", narration,
\*                  data.EMPTY_SET, data.EMPTY_SET, postings)
BalancingTxn(account, balancing_date, postings) ==
    Txn(<<<<"filename", "plugin">>, <<"lineno", 0>>>>, balancing_date, "*",
        "", <<"Automatically clear residual lots from closed account:",
              account>>,
        {}, {}, postings)

\* The body of the loop for an account with a non-empty inventory.
ClearBalance ==
    /\ AtResidual
    /\ ResidualInv # <<>>
    /\ LET postings == BalancingPostings(ResidualAccount, config,
                                         ResidualInv, Len(ResidualInv))
           close_date == Get(closed_accounts, ResidualAccount)
       IN  balancing_txns' =
               IF postings = <<>> THEN balancing_txns
               ELSE Put(balancing_txns, ResidualAccount,
                        BalancingTxn(ResidualAccount,
                                     BalancingDate(close_date), postings))
    /\ keyIdx' = keyIdx + 1
    /\ UNCHANGED <<config, input, pc, transId, postId, result, run,
                   closed_accounts, residual_inventories, notClear>>

\* if not balancing_txns: return entries, []
ClearReturnUnchanged ==
    /\ pc = "emit"
    /\ keyIdx > Len(residual_inventories)
    /\ balancing_txns = <<>>
    /\ result' = Some([entries |-> input, errors |-> <<>>])
    /\ pc' = "done"
    /\ UNCHANGED <<config, input, transId, postId, run, keyIdx,
                   closed_accounts, residual_inventories, balancing_txns,
                   notClear>>

\* return entries + list(balancing_txns.values()), []
ClearReturn ==
    /\ pc = "emit"
    /\ keyIdx > Len(residual_inventories)
    /\ balancing_txns # <<>>
    /\ result' = Some([entries |-> input \o Values(balancing_txns),
                       errors |-> <<>>])
    /\ pc' = "done"
    /\ UNCHANGED <<config, input, transId, postId, run, keyIdx,
                   closed_accounts, residual_inventories, balancing_txns,
                   notClear>>

ClearNext ==
    \/ ClearRaise
    \/ ClearNothingClosed
    \/ ClearFindClosed
    \/ ClearSkipEntry
    \/ ClearSkipPosting
    \/ ClearAddPosition
    \/ ClearScanned
    \/ ClearSkipEmpty
    \/ ClearBalance
    \/ ClearReturnUnchanged
    \/ ClearReturn

SpecClear == ClearInit /\ [][ClearNext]_vars

\* A second call of clear_residual_lots, on the entries the first call
\* returned, with the same configuration string.
ClearRerun ==
    /\ pc = "done"
    /\ run = 1
    /\ input' = Val(result).entries
    /\ pc' = "config"
    /\ transId' = 1
    /\ postId' = 1
    /\ result' = None
    /\ run' = 2
    /\ keyIdx' = 0
    /\ closed_accounts' = <<>>
    /\ residual_inventories' = <<>>
    /\ balancing_txns' = <<>>
    /\ UNCHANGED <<config, notClear>>

ClearNextRerun == ClearNext \/ ClearRerun

SpecClearRerun == ClearInit /\ [][ClearNextRerun]_vars

\* ----------------------------------------- clear_residual_lots: properties
\* The accounts of the ledgers, the accounts with a close directive among
\* the entries given, and the date of the last close directive of one.
ClearAccounts == {Investments, Broker, BalanceAccount, CashAccount}
Closed ==
    { input[i].account :
        i \in { j \in 1..Len(input) : input[j].type = "Close" } }
CloseDate(account) ==
    LET closes == { i \in 1..Len(input) :
                      input[i].type = "Close" /\ input[i].account = account }
    IN  input[CHOOSE i \in closes : \A j \in closes : j <= i].date

\* The lots, (instrument, cost) keys, of the postings of a list of entries.
LotKeys(entries) ==
    UNION { { <<entries[e].postings[p].units.currency,
                entries[e].postings[p].cost>> :
                  p \in 1..Len(entries[e].postings) } :
            e \in { i \in 1..Len(entries) : entries[i].type = "Transaction" } }

\* The units of a lot that the first n postings of a list put on an
\* account, and that the first n entries of a list put on it.
RECURSIVE LotOfPostings(_, _, _, _)
LotOfPostings(postings, account, key, n) ==
    IF n = 0 THEN ZERO
    ELSE RAdd(LotOfPostings(postings, account, key, n - 1),
              IF /\ postings[n].account = account
                 /\ postings[n].units.currency = key[1]
                 /\ postings[n].cost = key[2]
              THEN Val(postings[n].units.number) ELSE ZERO)
RECURSIVE NetLot(_, _, _, _)
NetLot(entries, account, key, n) ==
    IF n = 0 THEN ZERO
    ELSE RAdd(NetLot(entries, account, key, n - 1),
              IF entries[n].type = "Transaction"
              THEN LotOfPostings(entries[n].postings, account, key,
                                 Len(entries[n].postings))
              ELSE ZERO)
Net(entries, account, key) == NetLot(entries, account, key, Len(entries))

\* C13 as stated: after a call, every account with a close directive holds
\* zero units of every lot according to the entries returned.
C13_ClosedAccountsNetToZeroAsStated ==
    (pc = "done" /\ run = 1) =>
        \A account \in Closed, key \in LotKeys(Val(result).entries) :
            Net(Val(result).entries, account, key) = ZERO

\* C13: after a call, every account with a close directive, other than the
\* balancing account of the configuration, holds zero units of every lot
\* according to the entries returned.
C13_ClosedAccountsNetToZero ==
    (pc = "done" /\ run = 1) =>
        \A account \in Closed \ {config},
           key \in LotKeys(Val(result).entries) :
            Net(Val(result).entries, account, key) = ZERO

\* A closed account left with a lot of TEST and with cash: the call returned
\* one more entry, which negates both on the account.
C13_Witness ==
    /\ pc = "done"
    /\ run = 1
    /\ Investments \in Closed
    /\ Len(Val(result).entries) = Len(input) + 1
    /\ \E key \in LotKeys(input) :
          key[1] = "TEST" /\ Net(input, Investments, key) # ZERO
    /\ Net(input, Investments, <<"USD", None>>) # ZERO

\* The lots an account is left with by the entries given, and the entries a
\* call appended that clear an account.
Residual(account) ==
    { key \in LotKeys(input) : Net(input, account, key) # ZERO }
Appended ==
    SubSeq(Val(result).entries, Len(input) + 1, Len(Val(result).entries))
AppendedFor(account) ==
    { g \in 1..Len(Appended) : Appended[g].postings[1].account = account }

C18_SecondCallAppendsNothing ==
    (pc = "done" /\ run = 2 /\ config \notin Closed) =>
        /\ Val(result).entries = input
        /\ \A i \in 1..Len(residual_inventories) :
              residual_inventories[i][2] = <<>>

\* The second call has returned, given entries that end with the balancing
\* transaction of the first call.
C18_Witness ==
    /\ pc = "done"
    /\ run = 2
    /\ config \notin Closed
    /\ Len(input) = MaxTxns + 1
    /\ input[Len(input)].postings[1].account = Investments
    /\ Len(residual_inventories) >= 1

====
